---- MODULE Spec2Model ----
(***************************************************************************)
(* Model of the XWiki connector: the checkpointed batch protocol of        *)
(* XWikiConnector.load_from_checkpoint (connector.py), the search gateway  *)
(* XWikiClient.query_pages / _load_page_data / _request (onyx_xwiki.py)    *)
(* and the remote search index they page through; the attachment pipeline  *)
(* of process_xwiki_page and process_attachment (utils.py); and the query  *)
(* builder XWikiClient._build_solr_query.                                  *)
(***************************************************************************)
EXTENDS Integers, Sequences, FiniteSets, TLC

\* ------------------------------------------------------------------------
\* Bounds of the model
\* ------------------------------------------------------------------------
\* largest number of hits the remote index holds
MaxHits == 2
\* batch sizes 1..MaxBatch are tried for XWikiConnector._batch_size
MaxBatch == 3
\* modification dates are the half-second ticks 2..MaxTick (1000, 1500, ...)
MaxTick == 4
\* caller-supplied start values are 0..MaxStart seconds
MaxStart == 1

\* ------------------------------------------------------------------------
\* Program constants
\* ------------------------------------------------------------------------
\* @retry_builder(tries=3, ...) on XWikiClient._request
TRIES == 3
\* retry_builder() without arguments (on _fetch_page_data): its default number
\* of tries
DEFAULT_TRIES == 2
\* int(start * 1000) and since_ms / 1000: milliseconds per second
MS_PER_SECOND == 1000

\* Python's None for the int | None field since_ms (its values are >= 0)
None == -1
\* document.get("language") when the key is absent
NoLanguage == "<absent>"

Statuses == {200, 401, 500}
\* what the server answers to the successive attempts of one request; the
\* answers after the one that ends the request are never read and fixed to 200
StatusRuns ==
  {s \in [1..TRIES -> Statuses] :
     \A k \in 1..(TRIES - 1) : s[k] # 500 => s[k + 1] = 200}
Dates == {(MS_PER_SECOND \div 2) * k : k \in 2..MaxTick}
Starts == 0..MaxStart

Max2(a, b) == IF a >= b THEN a ELSE b
Min2(a, b) == IF a <= b THEN a ELSE b

\* The shapes of search hit the index may hold: the language marker of the hit,
\* whether its links carry the non-translation rel=page link, what the page
\* detail endpoint answers for it (status, and whether the body is usable
\* JSON), and whether the page detail carries what Document needs.
HitShapes ==
  { [language |-> "",         has_page_link |-> TRUE,  detail_status |-> 200, detail_empty |-> FALSE, assembles |-> TRUE],
    [language |-> "null",     has_page_link |-> TRUE,  detail_status |-> 200, detail_empty |-> FALSE, assembles |-> TRUE],
    [language |-> "fr",       has_page_link |-> TRUE,  detail_status |-> 200, detail_empty |-> FALSE, assembles |-> TRUE],
    [language |-> "",         has_page_link |-> FALSE, detail_status |-> 200, detail_empty |-> FALSE, assembles |-> TRUE],
    [language |-> "",         has_page_link |-> TRUE,  detail_status |-> 200, detail_empty |-> TRUE,  assembles |-> TRUE],
    [language |-> "",         has_page_link |-> TRUE,  detail_status |-> 500, detail_empty |-> FALSE, assembles |-> TRUE],
    [language |-> "",         has_page_link |-> TRUE,  detail_status |-> 401, detail_empty |-> FALSE, assembles |-> TRUE],
    [language |-> "",         has_page_link |-> TRUE,  detail_status |-> 200, detail_empty |-> FALSE, assembles |-> FALSE] }

\* ------------------------------------------------------------------------
\* The remote search index (rest/wikis/query with orderField=date, order=asc)
\* ------------------------------------------------------------------------
\* g sorts before h in ascending date order (ties by id)
Before(ds, g, h) ==
  \/ ds[g].date < ds[h].date
  \/ ds[g].date = ds[h].date /\ g < h

SortedIds(ds) ==
  [i \in 1..Len(ds) |->
     CHOOSE h \in DOMAIN ds : Cardinality({g \in DOMAIN ds : Before(ds, g, h)}) = i - 1]

\* the search result document of hit h
HitDocument(ds, h) ==
  [id |-> h, date |-> ds[h].date, language |-> ds[h].shape.language,
   has_page_link |-> ds[h].shape.has_page_link,
   detail_status |-> ds[h].shape.detail_status,
   detail_empty |-> ds[h].shape.detail_empty,
   assembles |-> ds[h].shape.assembles]

\* searchResults for q = ... AND (date:[lower TO *]), start, number
SolrSearch(ds, lower, start, number) ==
  LET matching == SelectSeq(SortedIds(ds),
                            LAMBDA h : lower = None \/ ds[h].date >= lower)
      window == SubSeq(matching, start + 1, Min2(start + number, Len(matching)))
  IN [i \in 1..Len(window) |-> HitDocument(ds, window[i])]

\* ------------------------------------------------------------------------
\* XWikiClient
\* ------------------------------------------------------------------------
\* the lower bound of the date:[... TO *] term: since_ms at the one-second
\* resolution of strftime("%Y-%m-%dT%H:%M:%SZ"); None when no term is added
build_modified_filter(since_ms) ==
  IF since_ms = None THEN None
  ELSE (since_ms \div MS_PER_SECOND) * MS_PER_SECOND

\* request_attempt without the 401 branch: a 401 is one more unexpected status
request_attempt_no_auth_branch(status) ==
  IF 200 <= status /\ status < 300 THEN "ok" ELSE "unexpected_response"

\* one execution of the body of _request on a response with this status
\* (no caller passes allow_status)
request_attempt(status) ==
  IF status = 401 THEN "auth_error"
  ELSE IF 200 <= status /\ status < 300 THEN "ok"
  ELSE "unexpected_response"

\* the retry wrapper: attempts are made until one succeeds, fails with a
\* non-retryable authentication error, or the tries are used up
RECURSIVE retry_from(_, _, _)
retry_from(tries, results, k) ==
  IF results[k] \in {"ok", "auth_error"} \/ k >= tries
  THEN [outcome |-> results[k], attempts |-> k]
  ELSE retry_from(tries, results, k + 1)

retry_builder(tries, results) == retry_from(tries, results, 1)

\* _request under @retry_builder(tries=3): statuses[k] is what the server
\* answers to the k-th attempt
request(statuses) ==
  retry_builder(TRIES, [k \in 1..TRIES |-> request_attempt(statuses[k])])

\* _fetch_page_data under @retry_builder(): each try is one _request; the
\* detail endpoint answers every attempt for this hit with detail_status
fetch_page_data(hit) ==
  LET inner == request([k \in 1..TRIES |-> hit.detail_status])
      outer == retry_builder(DEFAULT_TRIES, [j \in 1..DEFAULT_TRIES |-> inner.outcome])
  IN [outcome |-> outer.outcome,
      data_empty |-> hit.detail_empty,
      attempts |-> outer.attempts * inner.attempts]

\* _load_page_data without the language filter
load_page_data_all_languages(hit) ==
  IF ~hit.has_page_link
  THEN [kind |-> "none", error |-> "ok", attempts |-> 0]
  ELSE LET d == fetch_page_data(hit)
       IN IF d.outcome # "ok"
          THEN [kind |-> "raise", error |-> d.outcome, attempts |-> d.attempts]
          ELSE IF d.data_empty
          THEN [kind |-> "none", error |-> "ok", attempts |-> d.attempts]
          ELSE [kind |-> "page", error |-> "ok", attempts |-> d.attempts]

\* _load_page_data: "none" (hit dropped), "page" (an XWikiPage) or "raise",
\* and the number of requests sent to the page detail endpoint
load_page_data(hit) ==
  IF hit.language \notin {NoLanguage, "", "null"}
  THEN [kind |-> "none", error |-> "ok", attempts |-> 0]
  ELSE IF ~hit.has_page_link
  THEN [kind |-> "none", error |-> "ok", attempts |-> 0]
  ELSE LET d == fetch_page_data(hit)
       IN IF d.outcome # "ok"
          THEN [kind |-> "raise", error |-> d.outcome, attempts |-> d.attempts]
          ELSE IF d.data_empty
          THEN [kind |-> "none", error |-> "ok", attempts |-> d.attempts]
          ELSE [kind |-> "page", error |-> "ok", attempts |-> d.attempts]

\* the XWikiPage built from the page detail of a hit
PageOf(hit) == [id |-> hit.id, modified_ms |-> hit.date, assembles |-> hit.assembles]

\* the loop of query_pages over data_list, from index i on: the page records
\* and the detail fetches made (hit id, requests sent), in order
RECURSIVE load_refs(_, _)
load_refs(data_list, i) ==
  IF i > Len(data_list)
  THEN [outcome |-> "ok", refs |-> <<>>, fetched |-> <<>>]
  ELSE LET r == load_page_data(data_list[i])
           f == IF r.attempts > 0
                THEN <<[id |-> data_list[i].id, attempts |-> r.attempts]>>
                ELSE <<>>
       IN IF r.kind = "raise"
          THEN [outcome |-> r.error, refs |-> <<>>, fetched |-> f]
          ELSE LET rest == load_refs(data_list, i + 1)
               IN [outcome |-> rest.outcome,
                   refs |-> IF rest.outcome # "ok" THEN <<>>
                            ELSE IF r.kind = "page"
                            THEN <<PageOf(data_list[i])>> \o rest.refs
                            ELSE rest.refs,
                   fetched |-> f \o rest.fetched]

\* query_pages counting the resolved page records instead of the raw hits
query_pages_resolved_count(ds, since_ms, start, number, statuses) ==
  LET response == request(statuses)
      data_list == SolrSearch(ds, build_modified_filter(since_ms), start, number)
      loaded == load_refs(data_list, 1)
  IN IF response.outcome # "ok"
     THEN [outcome |-> response.outcome, refs |-> <<>>, raw_count |-> 0,
           data_list |-> <<>>, fetched |-> <<>>, attempts |-> response.attempts]
     ELSE [outcome |-> loaded.outcome, refs |-> loaded.refs,
           raw_count |-> Len(loaded.refs),
           data_list |-> data_list, fetched |-> loaded.fetched,
           attempts |-> response.attempts]

\* query_pages whose start moves on with every retried attempt of the search
query_pages_start_drifts(ds, since_ms, start, number, statuses) ==
  LET response == request(statuses)
      data_list == SolrSearch(ds, build_modified_filter(since_ms),
                              start + response.attempts - 1, number)
      loaded == load_refs(data_list, 1)
  IN IF response.outcome # "ok"
     THEN [outcome |-> response.outcome, refs |-> <<>>, raw_count |-> 0,
           data_list |-> <<>>, fetched |-> <<>>, attempts |-> response.attempts]
     ELSE [outcome |-> loaded.outcome, refs |-> loaded.refs,
           raw_count |-> IF loaded.outcome = "ok" THEN Len(data_list) ELSE 0,
           data_list |-> data_list, fetched |-> loaded.fetched,
           attempts |-> response.attempts]

\* query_pages(since_ms, start, number) against the index ds
query_pages(ds, since_ms, start, number, statuses) ==
  LET response == request(statuses)
      data_list == SolrSearch(ds, build_modified_filter(since_ms), start, number)
      loaded == load_refs(data_list, 1)
  IN IF response.outcome # "ok"
     THEN [outcome |-> response.outcome, refs |-> <<>>, raw_count |-> 0,
           data_list |-> <<>>, fetched |-> <<>>, attempts |-> response.attempts]
     ELSE [outcome |-> loaded.outcome, refs |-> loaded.refs,
           raw_count |-> IF loaded.outcome = "ok" THEN Len(data_list) ELSE 0,
           data_list |-> data_list, fetched |-> loaded.fetched,
           attempts |-> response.attempts]

\* ------------------------------------------------------------------------
\* XWikiConnector
\* ------------------------------------------------------------------------
\* build_dummy_checkpoint: XWikiCheckpoint(has_more=True)
build_dummy_checkpoint == [since_ms |-> None, offset |-> 0, has_more |-> TRUE]

\* process_xwiki_page: the Document of the page, or an exception
process_xwiki_page(page) == IF page.assembles THEN "document" ELSE "raise"

\* batch_loop tracking max_modified only for the pages whose document was built
RECURSIVE batch_loop_track_built(_, _, _)
batch_loop_track_built(pages, i, max_modified) ==
  IF i > Len(pages)
  THEN [max_modified |-> max_modified, docs |-> <<>>]
  ELSE LET page == pages[i]
           built == process_xwiki_page(page) = "document"
           mm == IF built /\ page.modified_ms # None /\ page.modified_ms # 0
                    /\ page.modified_ms > max_modified
                 THEN page.modified_ms ELSE max_modified
           rest == batch_loop_track_built(pages, i + 1, mm)
       IN [max_modified |-> rest.max_modified,
           docs |-> IF built THEN <<page.id>> \o rest.docs ELSE rest.docs]

\* the for loop of load_from_checkpoint over pages, from index i on:
\* max_modified after the loop and the ids of the documents yielded, in order
RECURSIVE batch_loop(_, _, _)
batch_loop(pages, i, max_modified) ==
  IF i > Len(pages)
  THEN [max_modified |-> max_modified, docs |-> <<>>]
  ELSE LET page == pages[i]
           mm == IF page.modified_ms # None /\ page.modified_ms # 0
                    /\ page.modified_ms > max_modified
                 THEN page.modified_ms ELSE max_modified
           rest == batch_loop(pages, i + 1, mm)
       IN [max_modified |-> rest.max_modified,
           docs |-> IF process_xwiki_page(page) = "document"
                    THEN <<page.id>> \o rest.docs ELSE rest.docs]

\* seed_since taking start at the beginning of every run
seed_since_every_run(cp, start) ==
  IF cp.offset = 0 /\ start # 0 THEN start * MS_PER_SECOND ELSE cp.since_ms

\* seed_since taking start also when cp.since_ms is already set
seed_since_overrides(cp, start) ==
  IF start # 0 THEN start * MS_PER_SECOND ELSE cp.since_ms

\* cp.since_ms seeded from start on first use
seed_since(cp, start) ==
  IF cp.since_ms = None /\ start # 0 THEN start * MS_PER_SECOND ELSE cp.since_ms

\* advance_checkpoint without the reset of a short batch
advance_checkpoint_no_reset(cp, raw_count, max_modified, number) ==
  [since_ms |-> cp.since_ms, offset |-> cp.offset + raw_count,
   has_more |-> raw_count >= number]

\* advance_checkpoint moving since_ms forward after every batch
advance_checkpoint_always_since(cp, raw_count, max_modified, number) ==
  [since_ms |-> IF max_modified > 0 THEN max_modified ELSE cp.since_ms,
   offset |-> IF raw_count >= number THEN cp.offset + raw_count ELSE 0,
   has_more |-> raw_count >= number]

\* advance_checkpoint taking the offset for the index of the last hit
\* fetched instead of the number of hits fetched
advance_checkpoint_next_index(cp, raw_count, max_modified, number) ==
  LET has_more == raw_count >= number
  IN IF has_more
     THEN [since_ms |-> cp.since_ms, offset |-> cp.offset + raw_count + 1,
           has_more |-> TRUE]
     ELSE [since_ms |-> IF max_modified > 0 THEN max_modified ELSE cp.since_ms,
           offset |-> 0, has_more |-> FALSE]

\* the cursor bookkeeping after the loop
advance_checkpoint(cp, raw_count, max_modified, number) ==
  LET has_more == raw_count >= number
  IN IF has_more
     THEN [since_ms |-> cp.since_ms, offset |-> cp.offset + raw_count, has_more |-> TRUE]
     ELSE [since_ms |-> IF max_modified > 0 THEN max_modified ELSE cp.since_ms,
           offset |-> 0, has_more |-> FALSE]

\* caller_checkpoint when the method works on the object it was given
caller_checkpoint_aliased(checkpoint_in, cp) == cp

\* cp = copy.deepcopy(checkpoint): the checkpoint object of the caller when
\* the method has worked on cp
caller_checkpoint(checkpoint_in, cp) == checkpoint_in

\* load_from_checkpoint(start, end, checkpoint), run to its return value; when
\* it raises, out_cursor is the checkpoint object the caller still holds; given
\* is the checkpoint object that was passed in, as it is after the call
load_from_checkpoint(ds, number, loaded, start, checkpoint_in, statuses) ==
  LET cp == [checkpoint_in EXCEPT !.since_ms = seed_since(checkpoint_in, start)]
      q == query_pages(ds, cp.since_ms, cp.offset, number, statuses)
      loop == batch_loop(q.refs, 1, IF cp.since_ms = None THEN 0 ELSE cp.since_ms)
  IN IF ~loaded
     THEN [outcome |-> "missing_credentials", q_since |-> checkpoint_in.since_ms,
           q_offset |-> checkpoint_in.offset, attempts |-> 0, data_list |-> <<>>,
           refs |-> <<>>, fetched |-> <<>>, raw_count |-> 0, docs |-> <<>>,
           out_cursor |-> checkpoint_in, given |-> checkpoint_in]
     ELSE IF q.outcome # "ok"
     THEN [outcome |-> q.outcome, q_since |-> cp.since_ms, q_offset |-> cp.offset,
           attempts |-> q.attempts, data_list |-> q.data_list, refs |-> <<>>,
           fetched |-> q.fetched, raw_count |-> 0, docs |-> <<>>,
           out_cursor |-> caller_checkpoint(checkpoint_in, cp),
           given |-> caller_checkpoint(checkpoint_in, cp)]
     ELSE LET out == advance_checkpoint(cp, q.raw_count, loop.max_modified, number)
          IN [outcome |-> "ok", q_since |-> cp.since_ms, q_offset |-> cp.offset,
              attempts |-> q.attempts, data_list |-> q.data_list, refs |-> q.refs,
              fetched |-> q.fetched, raw_count |-> q.raw_count, docs |-> loop.docs,
              out_cursor |-> out, given |-> caller_checkpoint(checkpoint_in, out)]

\* load_from_checkpoint when the caller closes the generator after it received
\* k documents, or all of them when there are fewer: the code after the loop is
\* not reached and no cursor is returned
load_from_checkpoint_closed(ds, number, start, checkpoint_in, statuses, k) ==
  LET cp == [checkpoint_in EXCEPT !.since_ms = seed_since(checkpoint_in, start)]
      q == query_pages(ds, cp.since_ms, cp.offset, number, statuses)
      loop == batch_loop(q.refs, 1, IF cp.since_ms = None THEN 0 ELSE cp.since_ms)
  IN [outcome |-> IF q.outcome = "ok" THEN "stopped" ELSE q.outcome,
      q_since |-> cp.since_ms, q_offset |-> cp.offset,
      attempts |-> q.attempts, data_list |-> q.data_list, refs |-> q.refs,
      fetched |-> q.fetched, raw_count |-> q.raw_count,
      docs |-> SubSeq(loop.docs, 1, Min2(k, Len(loop.docs))),
      out_cursor |-> caller_checkpoint(checkpoint_in, cp),
      given |-> caller_checkpoint(checkpoint_in, cp)]

\* ------------------------------------------------------------------------
\* Strings (str.startswith, str.endswith, str.lower, str.partition, ...)
\* ------------------------------------------------------------------------
startswith(s, prefix) ==
  Len(s) >= Len(prefix) /\ SubSeq(s, 1, Len(prefix)) = prefix

endswith(s, suffix) ==
  Len(s) >= Len(suffix) /\ SubSeq(s, Len(s) - Len(suffix) + 1, Len(s)) = suffix

\* the index of the first occurrence of the one-character string c in s at or
\* after position i; 0 when there is none
RECURSIVE find_from(_, _, _)
find_from(s, c, i) ==
  IF i > Len(s) THEN 0
  ELSE IF SubSeq(s, i, i) = c THEN i
  ELSE find_from(s, c, i + 1)

\* the index of the last occurrence of c in s at or before position i
RECURSIVE rfind_from(_, _, _)
rfind_from(s, c, i) ==
  IF i < 1 THEN 0
  ELSE IF SubSeq(s, i, i) = c THEN i
  ELSE rfind_from(s, c, i - 1)

\* str.lower on one character (the upper-case letters the media types use)
lower_char(c) ==
  CASE c = "I" -> "i" [] c = "M" -> "m" [] c = "A" -> "a" [] c = "G" -> "g"
    [] c = "E" -> "e" [] c = "P" -> "p" [] c = "N" -> "n" [] OTHER -> c

RECURSIVE lower_from(_, _)
lower_from(s, i) ==
  IF i > Len(s) THEN "" ELSE lower_char(SubSeq(s, i, i)) \o lower_from(s, i + 1)

lower(s) == lower_from(s, 1)

\* ------------------------------------------------------------------------
\* Attachment pipeline (utils.py)
\* ------------------------------------------------------------------------
\* Python's None for an optional string field or result
NoValue == "<None>"
\* extract_file_text raising instead of returning a text
ExtractRaises == "<raises>"

\* the size ceiling, in the size unit of the model
XWIKI_ATTACHMENT_SIZE_THRESHOLD == 2
\* the ceiling of len(text), in characters
XWIKI_ATTACHMENT_CHAR_COUNT_THRESHOLD == 2

\* is_valid_image_type: the accepted image types
AcceptedImageTypes == {"image/png"}
is_valid_image_type(media_type) == media_type \in AcceptedImageTypes

\* is_accepted_file_ext(suffix, Plain | Document)
AcceptedExtensions == {".pdf"}
is_accepted_file_ext(suffix) == suffix \in AcceptedExtensions

\* Path(name).suffix: from the last dot on, when that dot is not the first
\* character; "" otherwise
path_suffix(name) ==
  LET dot == rfind_from(name, ".", Len(name))
  IN IF dot <= 1 \/ dot = Len(name) THEN "" ELSE SubSeq(name, dot, Len(name))

\* getattr(attachment, "mime_type", None) or ""
media_type_of(attachment) ==
  IF attachment.mime_type = NoValue THEN "" ELSE attachment.mime_type

validate_attachment_filetype(attachment) ==
  LET media_type == lower(media_type_of(attachment))
      suffix == path_suffix(attachment.name)
  IN IF startswith(media_type, "image/")
     THEN is_valid_image_type(media_type)
     ELSE IF suffix = "" THEN FALSE
     ELSE is_accepted_file_ext(suffix)

\* download_attachment under @retry_builder(): each try is one _request; the
\* server answers every attempt for this attachment with download_status
download_attachment(attachment) ==
  LET inner == request([k \in 1..TRIES |-> attachment.download_status])
      outer == retry_builder(DEFAULT_TRIES, [j \in 1..DEFAULT_TRIES |-> inner.outcome])
  IN [outcome |-> outer.outcome,
      content_empty |-> attachment.content_empty,
      attempts |-> outer.attempts * inner.attempts]

\* AttachmentProcessingResult(...), with the number of download_attachment
\* calls made on the way
AttachmentProcessingResult(text, image_section, error, downloads) ==
  [text |-> text, image_section |-> image_section, error |-> error,
   downloads |-> downloads]

\* process_attachment without the size ceiling
process_attachment_no_size_limit(attachment, allow_images) ==
  LET media_type == media_type_of(attachment)
      is_image == startswith(media_type, "image/")
      d == download_attachment(attachment)
      text == attachment.extract
  IN IF ~validate_attachment_filetype(attachment)
     THEN AttachmentProcessingResult(NoValue, NoValue, "Unsupported file type", 0)
     ELSE IF is_image /\ ~allow_images
     THEN AttachmentProcessingResult(NoValue, NoValue, "Image downloading is not enabled", 0)
     ELSE IF d.outcome # "ok"
     THEN AttachmentProcessingResult(NoValue, NoValue, d.outcome, 1)
     ELSE IF d.content_empty
     THEN AttachmentProcessingResult(NoValue, NoValue, "Attachment content empty", 1)
     ELSE IF is_image
     THEN IF attachment.store_ok
          THEN AttachmentProcessingResult(NoValue, "image_section", NoValue, 1)
          ELSE AttachmentProcessingResult(NoValue, NoValue, "storage failed", 1)
     ELSE IF text = ExtractRaises
     THEN AttachmentProcessingResult(NoValue, NoValue, "extraction failed", 1)
     ELSE IF Len(text) > XWIKI_ATTACHMENT_CHAR_COUNT_THRESHOLD
     THEN AttachmentProcessingResult(NoValue, NoValue, "Attachment text too long", 1)
     ELSE AttachmentProcessingResult(IF text = "" THEN NoValue ELSE text,
                                     NoValue, NoValue, 1)

\* process_attachment keeping the text next to the error of a text that is too
\* long
process_attachment_keeps_long_text(attachment, allow_images) ==
  LET media_type == media_type_of(attachment)
      is_image == startswith(media_type, "image/")
      attachment_size == IF attachment.size = None THEN 0 ELSE attachment.size
      d == download_attachment(attachment)
      text == attachment.extract
  IN IF ~validate_attachment_filetype(attachment)
     THEN AttachmentProcessingResult(NoValue, NoValue, "Unsupported file type", 0)
     ELSE IF is_image /\ ~allow_images
     THEN AttachmentProcessingResult(NoValue, NoValue, "Image downloading is not enabled", 0)
     ELSE IF ~is_image /\ attachment_size # 0
             /\ attachment_size > XWIKI_ATTACHMENT_SIZE_THRESHOLD
     THEN AttachmentProcessingResult(NoValue, NoValue, "Attachment exceeds size limit", 0)
     ELSE IF d.outcome # "ok"
     THEN AttachmentProcessingResult(NoValue, NoValue, d.outcome, 1)
     ELSE IF d.content_empty
     THEN AttachmentProcessingResult(NoValue, NoValue, "Attachment content empty", 1)
     ELSE IF is_image
     THEN IF attachment.store_ok
          THEN AttachmentProcessingResult(NoValue, "image_section", NoValue, 1)
          ELSE AttachmentProcessingResult(NoValue, NoValue, "storage failed", 1)
     ELSE IF text = ExtractRaises
     THEN AttachmentProcessingResult(NoValue, NoValue, "extraction failed", 1)
     ELSE IF Len(text) > XWIKI_ATTACHMENT_CHAR_COUNT_THRESHOLD
     THEN AttachmentProcessingResult(text, NoValue, "Attachment text too long", 1)
     ELSE AttachmentProcessingResult(IF text = "" THEN NoValue ELSE text,
                                     NoValue, NoValue, 1)

\* process_attachment(client, page_ref, attachment, allow_images)
process_attachment(attachment, allow_images) ==
  LET media_type == media_type_of(attachment)
      is_image == startswith(media_type, "image/")
      attachment_size == IF attachment.size = None THEN 0 ELSE attachment.size
      d == download_attachment(attachment)
      text == attachment.extract
  IN IF ~validate_attachment_filetype(attachment)
     THEN AttachmentProcessingResult(NoValue, NoValue, "Unsupported file type", 0)
     ELSE IF is_image /\ ~allow_images
     THEN AttachmentProcessingResult(NoValue, NoValue, "Image downloading is not enabled", 0)
     ELSE IF ~is_image /\ attachment_size # 0
             /\ attachment_size > XWIKI_ATTACHMENT_SIZE_THRESHOLD
     THEN AttachmentProcessingResult(NoValue, NoValue, "Attachment exceeds size limit", 0)
     ELSE IF d.outcome # "ok"
     THEN AttachmentProcessingResult(NoValue, NoValue, d.outcome, 1)
     ELSE IF d.content_empty
     THEN AttachmentProcessingResult(NoValue, NoValue, "Attachment content empty", 1)
     ELSE IF is_image
     THEN IF attachment.store_ok
          THEN AttachmentProcessingResult(NoValue, "image_section", NoValue, 1)
          ELSE AttachmentProcessingResult(NoValue, NoValue, "storage failed", 1)
     ELSE IF text = ExtractRaises
     THEN AttachmentProcessingResult(NoValue, NoValue, "extraction failed", 1)
     ELSE IF Len(text) > XWIKI_ATTACHMENT_CHAR_COUNT_THRESHOLD
     THEN AttachmentProcessingResult(NoValue, NoValue, "Attachment text too long", 1)
     ELSE AttachmentProcessingResult(IF text = "" THEN NoValue ELSE text,
                                     NoValue, NoValue, 1)

\* the sections process_xwiki_page appends for the result of attachment i
sections_of(result, i) ==
  (IF result.text \notin {NoValue, ""}
   THEN <<[kind |-> "text", attachment |-> i, text |-> result.text]>> ELSE <<>>)
  \o (IF result.image_section # NoValue
      THEN <<[kind |-> "image", attachment |-> i, text |-> ""]>> ELSE <<>>)

\* attachment_loop leaving the loop at the first attachment that fails
RECURSIVE attachment_loop_abort_on_error(_, _, _)
attachment_loop_abort_on_error(attachments, i, allow_images) ==
  IF i > Len(attachments)
  THEN [results |-> <<>>, sections |-> <<>>]
  ELSE LET result == process_attachment(attachments[i], allow_images)
           rest == IF result.error # NoValue
                   THEN [results |-> <<>>, sections |-> <<>>]
                   ELSE attachment_loop_abort_on_error(attachments, i + 1, allow_images)
       IN [results |-> <<result>> \o rest.results,
           sections |-> sections_of(result, i) \o rest.sections]

\* the for loop of process_xwiki_page over page.attachments, from index i on:
\* the result of every attachment and the sections appended, in order
RECURSIVE attachment_loop(_, _, _)
attachment_loop(attachments, i, allow_images) ==
  IF i > Len(attachments)
  THEN [results |-> <<>>, sections |-> <<>>]
  ELSE LET result == process_attachment(attachments[i], allow_images)
           rest == attachment_loop(attachments, i + 1, allow_images)
       IN [results |-> <<result>> \o rest.results,
           sections |-> sections_of(result, i) \o rest.sections]

\* ------------------------------------------------------------------------
\* Query builder (XWikiClient._build_solr_query and the parameters of
\* query_pages)
\* ------------------------------------------------------------------------
\* _esc: a backslash before every backslash and every double quote
RECURSIVE esc_from(_, _)
esc_from(val, i) ==
  IF i > Len(val) THEN ""
  ELSE LET c == SubSeq(val, i, i)
       IN (IF c = "\\" \/ c = "\"" THEN "\\" \o c ELSE c) \o esc_from(val, i + 1)

esc(val) == esc_from(val, 1)

\* str.split(): the maximal runs without a blank, from position i on, the run
\* in progress being word
RECURSIVE split_from(_, _, _)
split_from(s, i, word) ==
  IF i > Len(s) THEN (IF word = "" THEN <<>> ELSE <<word>>)
  ELSE IF SubSeq(s, i, i) = " "
  THEN (IF word = "" THEN <<>> ELSE <<word>>) \o split_from(s, i + 1, "")
  ELSE split_from(s, i + 1, word \o SubSeq(s, i, i))

split(s) == split_from(s, 1, "")

\* " ".join(f"+{word}" for word in words), from index i on
RECURSIVE join_required(_, _)
join_required(words, i) ==
  IF i > Len(words) THEN ""
  ELSE ("+" \o words[i]) \o (IF i < Len(words) THEN " " ELSE "")
       \o join_required(words, i + 1)

\* root_page.partition(":"): (head, separator, tail) around the first colon
partition(s) ==
  LET at == find_from(s, ":", 1)
  IN IF at = 0 THEN [head |-> s, separator |-> "", tail |-> ""]
     ELSE [head |-> SubSeq(s, 1, at - 1), separator |-> ":",
           tail |-> SubSeq(s, at + 1, Len(s))]

\* the length of ".WebHome"
WEBHOME_LEN == 8

\* _extract_space_from_page_reference keeping a trailing .WebHome
extract_space_keep_webhome(page_ref) == page_ref

extract_space_from_page_reference(page_ref) ==
  IF endswith(page_ref, ".WebHome")
  THEN SubSeq(page_ref, 1, Len(page_ref) - WEBHOME_LEN)
  ELSE page_ref

\* _build_space_filter (the space holds at least one word)
build_space_filter(space, recursive) ==
  IF recursive
  THEN IF find_from(space, " ", 1) # 0
       THEN LET words == split(space)
                required_terms == join_required(SubSeq(words, 1, Len(words) - 1), 1)
                last_word_wildcard == "+" \o words[Len(words)] \o "*"
            IN "space:(" \o required_terms \o " " \o last_word_wildcard \o ")"
       ELSE "space:(" \o space \o "*)"
  ELSE "space:\"" \o esc(space) \o "\""

\* _build_modified_filter as the text "date:[<since_iso> TO *]"; since_iso is
\* rendered as the whole seconds since the epoch
modified_filter_term(since_ms) ==
  IF since_ms = None THEN ""
  ELSE "date:[" \o ToString(since_ms \div MS_PER_SECOND) \o "s TO *]"

\* " AND ".join([f"({t})" for t in queryTerms if t]), from index i on
RECURSIVE join_terms(_, _)
join_terms(terms, i) ==
  IF i > Len(terms) THEN ""
  ELSE ("(" \o terms[i] \o ")") \o (IF i < Len(terms) THEN " AND " ELSE "")
       \o join_terms(terms, i + 1)

\* _build_solr_query adding the tag filter next to the space filter
build_solr_query_both_filters(root_page, tag, index_recursively, since_ms) ==
  LET parts == partition(root_page)
      has_root == root_page \notin {NoValue, ""}
      has_tag == tag \notin {NoValue, ""}
      space == IF ~has_root THEN NoValue
               ELSE IF parts.separator # ""
               THEN extract_space_from_page_reference(parts.tail)
               ELSE extract_space_from_page_reference(root_page)
      queryTerms ==
        <<"type:(\"DOCUMENT\")", "hidden:false">>
        \o (IF has_root THEN <<build_space_filter(space, index_recursively)>> ELSE <<>>)
        \o (IF has_tag
            THEN <<"(property.XWiki.TagClass.tags:\"" \o esc(tag) \o "\")">>
            ELSE <<>>)
        \o (IF since_ms # None THEN <<modified_filter_term(since_ms)>> ELSE <<>>)
      kept == SelectSeq(queryTerms, LAMBDA t : t # "")
  IN [query |-> join_terms(kept, 1),
      extra_params |-> [wiki |-> IF has_root /\ parts.separator # ""
                                 THEN parts.head ELSE NoValue],
      queryTerms |-> queryTerms,
      space |-> space]

\* _build_solr_query(root_page, tag, index_recursively, since_ms): the query
\* string and extra_params, with the queryTerms and the space it computed
build_solr_query(root_page, tag, index_recursively, since_ms) ==
  LET parts == partition(root_page)
      has_root == root_page \notin {NoValue, ""}
      has_tag == tag \notin {NoValue, ""}
      space == IF ~has_root THEN NoValue
               ELSE IF parts.separator # ""
               THEN extract_space_from_page_reference(parts.tail)
               ELSE extract_space_from_page_reference(root_page)
      queryTerms ==
        <<"type:(\"DOCUMENT\")", "hidden:false">>
        \o (IF has_root THEN <<build_space_filter(space, index_recursively)>>
            ELSE IF has_tag
            THEN <<"(property.XWiki.TagClass.tags:\"" \o esc(tag) \o "\")">>
            ELSE <<>>)
        \o (IF since_ms # None THEN <<modified_filter_term(since_ms)>> ELSE <<>>)
      kept == SelectSeq(queryTerms, LAMBDA t : t # "")
  IN [query |-> join_terms(kept, 1),
      extra_params |-> [wiki |-> IF has_root /\ parts.separator # ""
                                 THEN parts.head ELSE NoValue],
      queryTerms |-> queryTerms,
      space |-> space]

\* wiki_to_use preferring the wiki extracted from root_page
wiki_to_use_prefers_extracted(wiki, extra_params) ==
  IF extra_params.wiki \notin {NoValue, ""} THEN extra_params.wiki ELSE wiki

\* wiki or extra_params.get("wiki")
wiki_to_use(wiki, extra_params) ==
  IF wiki \notin {NoValue, ""} THEN wiki ELSE extra_params.wiki

\* the parameters of the search request of query_pages; wikis is NoValue when
\* the key is not set
query_parameters(wiki, root_page, tag, index_recursively, since_ms, start, number) ==
  LET b == build_solr_query(root_page, tag, index_recursively, since_ms)
      w == wiki_to_use(wiki, b.extra_params)
  IN [type |-> "solr", start |-> start, number |-> number, distinct |-> "true",
      orderField |-> "date", order |-> "asc", q |-> b.query,
      wikis |-> IF w \notin {NoValue, ""} THEN w ELSE NoValue]

\* ------------------------------------------------------------------------
\* State
\* ------------------------------------------------------------------------
VARIABLES
  dataset,        \* the remote index: hit id -> [shape, date]
  batch_size,     \* XWikiConnector._batch_size
  client_loaded,  \* XWikiConnector._client is not None
  checkpoint,     \* the caller's persisted XWikiCheckpoint
  offset_since,   \* the since_ms under which checkpoint.offset was accumulated
  run,            \* the batches fetched since the cursor last stood at offset 0:
                  \* the pages yielded, the pages matching in every batch so
                  \* far, whether every batch was queried with the same since_ms,
                  \* the number of batches, the modified_ms of the page records
                  \* seen and the ids of the raw hits fetched, in order
  last,           \* what the last load_from_checkpoint call did
  allow_images,   \* XWikiConnector._allow_images
  page,           \* the XWikiPage handed to process_xwiki_page
  processed,      \* what the last process_xwiki_page call did
  scope,          \* XWikiConnector._wiki, _root_page, _tag, _index_recursively
  built           \* the search request query_pages last put together

connector_vars ==
  <<dataset, batch_size, client_loaded, checkpoint, offset_since, run, last>>
page_vars == <<allow_images, page, processed>>
scope_vars == <<scope, built>>

vars == <<dataset, batch_size, client_loaded, checkpoint, offset_since, run, last,
          allow_images, page, processed, scope, built>>

NoCall ==
  [outcome |-> "none", start |-> 0, statuses |-> <<>>,
   in_cursor |-> build_dummy_checkpoint, in_offset_since |-> None,
   q_since |-> None, q_offset |-> 0, attempts |-> 0, data_list |-> <<>>,
   refs |-> <<>>, fetched |-> <<>>, raw_count |-> 0, docs |-> <<>>,
   out_cursor |-> build_dummy_checkpoint, given |-> build_dummy_checkpoint,
   same_start |-> TRUE, missed |-> {}, replay |-> FALSE]

NoRun ==
  [yielded |-> {}, eligible |-> {}, same_start |-> TRUE,
   batches |-> 0, seen |-> {}, hits |-> <<>>]

\* a page without attachments; no process_xwiki_page call made yet
NoPage == [attachments |-> <<>>, assembles |-> TRUE]
NoProcessed ==
  [allow_images |-> FALSE, results |-> <<>>, sections |-> <<>>, document |-> "none"]

\* a connector configured without root_page and tag; no search request put
\* together yet
NoScope ==
  [wiki |-> NoValue, wiki_prefix |-> NoValue, space_name |-> NoValue,
   web_home |-> FALSE, root_page |-> NoValue, tag |-> NoValue,
   index_recursively |-> TRUE]
NoBuilt ==
  [since_ms |-> None, parameters |-> <<>>, query |-> "", queryTerms |-> <<>>,
   extra_params |-> [wiki |-> NoValue], space |-> NoValue]

\* the initial index: hit i was last modified at tick i + 1, so hit ids list
\* the index in ascending date order
InitialDate(i) == (MS_PER_SECOND \div 2) * (i + 1)

Init ==
  /\ \E n \in 0..MaxHits :
       \E shapes \in [1..n -> HitShapes] :
         dataset = [i \in 1..n |-> [shape |-> shapes[i], date |-> InitialDate(i)]]
  /\ batch_size \in 1..MaxBatch
  /\ client_loaded = FALSE
  /\ checkpoint = build_dummy_checkpoint
  /\ offset_since = None
  /\ run = NoRun
  /\ last = NoCall
  /\ allow_images = FALSE
  /\ page = NoPage
  /\ processed = NoProcessed
  /\ scope = NoScope
  /\ built = NoBuilt

\* load_credentials
LoadCredentials ==
  /\ ~client_loaded
  /\ client_loaded' = TRUE
  /\ UNCHANGED <<dataset, batch_size, checkpoint, offset_since, run, last>>
  /\ UNCHANGED <<page_vars, scope_vars>>

\* the pages a run should return: the hits that resolve to a page whose
\* document assembles and that match the date filter of the run
Eligible(ds, since_ms) ==
  {h \in DOMAIN ds :
     /\ load_page_data(HitDocument(ds, h)).kind = "page"
     /\ ds[h].shape.assembles
     /\ \/ since_ms = None
        \/ ds[h].date >= build_modified_filter(since_ms)}

SeqRange(s) == {s[i] : i \in DOMAIN s}

\* The caller runs one batch: it iterates load_from_checkpoint to its end and
\* persists the returned checkpoint; when the call raises, the persisted
\* checkpoint stays as it was.
LoadFromCheckpoint(start, statuses) ==
  \E r \in {load_from_checkpoint(dataset, batch_size, client_loaded, start,
                                 checkpoint, statuses)} :
  LET ok == r.outcome = "ok"
      new_run == IF checkpoint.offset = 0
                 THEN [yielded |-> SeqRange(r.docs),
                       eligible |-> Eligible(dataset, r.q_since),
                       same_start |-> TRUE,
                       batches |-> 1,
                       seen |-> {r.refs[i].modified_ms : i \in DOMAIN r.refs},
                       hits |-> [i \in DOMAIN r.data_list |-> r.data_list[i].id]]
                 ELSE [yielded |-> run.yielded \cup SeqRange(r.docs),
                       eligible |-> run.eligible \cap Eligible(dataset, r.q_since),
                       same_start |-> run.same_start /\ r.q_since = offset_since,
                       batches |-> run.batches + 1,
                       seen |-> run.seen
                                \cup {r.refs[i].modified_ms : i \in DOMAIN r.refs},
                       hits |-> run.hits
                                \o [i \in DOMAIN r.data_list |-> r.data_list[i].id]]
      replay == /\ ok /\ last.outcome \in {"ok", "stopped"}
                /\ checkpoint.since_ms = last.in_cursor.since_ms
                /\ checkpoint.offset = last.in_cursor.offset
                /\ r.q_since = last.q_since
  IN /\ checkpoint' = r.out_cursor
     /\ offset_since' = IF ~ok THEN offset_since
                        ELSE IF r.out_cursor.offset = 0 THEN None ELSE r.q_since
     /\ run' = IF ok THEN new_run ELSE run
     /\ last' = [outcome |-> r.outcome, start |-> start,
                 statuses |-> SubSeq(statuses, 1, r.attempts),
                 in_cursor |-> checkpoint, in_offset_since |-> offset_since,
                 q_since |-> r.q_since, q_offset |-> r.q_offset,
                 attempts |-> r.attempts, data_list |-> r.data_list,
                 refs |-> r.refs, fetched |-> r.fetched, raw_count |-> r.raw_count,
                 docs |-> r.docs, out_cursor |-> r.out_cursor, given |-> r.given,
                 same_start |-> IF ok THEN new_run.same_start ELSE TRUE,
                 missed |-> IF ok /\ ~r.out_cursor.has_more
                            THEN new_run.eligible \ new_run.yielded
                            ELSE {},
                 replay |-> replay]
     /\ UNCHANGED <<dataset, batch_size, client_loaded>>
     /\ UNCHANGED <<page_vars, scope_vars>>

\* The caller starts over from a fresh checkpoint, under which no call has
\* been made yet.
BuildDummyCheckpoint ==
  /\ last # NoCall
  /\ checkpoint' = build_dummy_checkpoint
  /\ offset_since' = None
  /\ run' = NoRun
  /\ last' = NoCall
  /\ UNCHANGED <<dataset, batch_size, client_loaded>>
  /\ UNCHANGED <<page_vars, scope_vars>>

\* A page of the wiki is modified: it receives a date newer than every date in
\* the index.
NewerDates(ds) == {d \in Dates : \A h \in DOMAIN ds : d > ds[h].date}

Modify(h) ==
  /\ NewerDates(dataset) # {}
  /\ dataset' = [dataset EXCEPT ![h].date =
                   CHOOSE d \in NewerDates(dataset) : \A e \in NewerDates(dataset) : d <= e]
  /\ UNCHANGED <<batch_size, client_loaded, checkpoint, offset_since, run, last>>
  /\ UNCHANGED <<page_vars, scope_vars>>

\* The connector against an index that does not change.
Next ==
  \/ LoadCredentials
  \/ \E start \in Starts : \E statuses \in StatusRuns :
       LoadFromCheckpoint(start, statuses)
  \/ BuildDummyCheckpoint

Spec == Init /\ [][Next]_vars

\* The connector against an index whose pages are modified between the batches
\* of a run; the search endpoint answers every request with 200.
AllOk == [k \in 1..TRIES |-> 200]

NextConcurrent ==
  \/ LoadCredentials
  \/ \E start \in Starts : LoadFromCheckpoint(start, AllOk)
  \/ BuildDummyCheckpoint
  \/ \E h \in DOMAIN dataset : Modify(h)

SpecConcurrent == Init /\ [][NextConcurrent]_vars

\* One run of the caller: while the checkpoint says has_more, it feeds the
\* checkpoint it holds into the next load_from_checkpoint call; the search
\* endpoint answers every request with 200 and the index does not change.
RunBatch(start) ==
  /\ client_loaded
  /\ checkpoint.has_more
  /\ LoadFromCheckpoint(start, AllOk)

NextRun ==
  \/ LoadCredentials
  \/ \E start \in Starts : RunBatch(start)

\* the caller keeps calling as long as a call is due
SpecRun == Init /\ [][NextRun]_vars /\ WF_vars(NextRun)

\* The caller stops iterating a batch after it received k of its documents and
\* closes the generator: it has no new checkpoint to persist and keeps the
\* checkpoint object it passed in. The search request of the batch was
\* answered 200.
StopIterating(start, k) ==
  /\ client_loaded
  /\ \E r \in {load_from_checkpoint_closed(dataset, batch_size, start, checkpoint,
                                           AllOk, k)} :
       /\ r.outcome = "stopped"
       /\ Len(r.docs) = k
       /\ checkpoint' = r.out_cursor
       /\ last' = [outcome |-> r.outcome, start |-> start,
                   statuses |-> SubSeq(AllOk, 1, r.attempts),
                   in_cursor |-> checkpoint, in_offset_since |-> offset_since,
                   q_since |-> r.q_since, q_offset |-> r.q_offset,
                   attempts |-> r.attempts, data_list |-> r.data_list,
                   refs |-> r.refs, fetched |-> r.fetched,
                   raw_count |-> r.raw_count, docs |-> r.docs,
                   out_cursor |-> r.out_cursor, given |-> r.given,
                   same_start |-> TRUE, missed |-> {}, replay |-> FALSE]
  /\ UNCHANGED <<dataset, batch_size, client_loaded, offset_since, run>>
  /\ UNCHANGED <<page_vars, scope_vars>>

\* the search endpoint answers a request at once, or 500 to every attempt
UnretriedRuns == {s \in StatusRuns : s[1] # 500 \/ s[TRIES] = 500}

\* The connector against an index that does not change, under a caller who
\* may abandon a batch.
NextInterrupted ==
  \/ LoadCredentials
  \/ \E start \in Starts : \E statuses \in UnretriedRuns :
       LoadFromCheckpoint(start, statuses)
  \/ \E start \in Starts : \E k \in 1..MaxBatch : StopIterating(start, k)
  \/ BuildDummyCheckpoint

SpecInterrupted == Init /\ [][NextInterrupted]_vars

\* ------------------------------------------------------------------------
\* process_xwiki_page on a page with attachments
\* ------------------------------------------------------------------------
\* largest number of attachments of a page
MaxAttachments == 2

\* mime_type of an attachment entry: absent, an accepted image type, the same
\* type in upper case, an image type that is not accepted, a document type
MimeTypes == {NoValue, "image/png", "IMAGE/PNG", "image/tiff", "application/pdf"}
\* attachment names: with an accepted extension, with another extension,
\* without a suffix
Names == {"a.pdf", "p.png", "README"}
\* what the server answers to every attempt of a download
DownloadStatuses == {200, 500}
\* declared sizes: absent, below and above the size ceiling
Sizes == {None, XWIKI_ATTACHMENT_SIZE_THRESHOLD - 1, XWIKI_ATTACHMENT_SIZE_THRESHOLD + 1}
\* what extract_file_text returns for the bytes of the attachment: an
\* exception, no text, a text within and a text above the character ceiling
Extracts == {ExtractRaises, "", "ab", "abc"}

\* The attachments a page may carry: what the page detail declares (mime_type,
\* name, size), what the server answers to the download (status of every
\* attempt, whether the content is empty), whether the image store accepts
\* the bytes, and what text extraction gives. The fields that no step of
\* process_attachment reads for the attachment are fixed (the name of an
\* attachment with an image type to "p.png"), and the failing downloads and
\* extractions are tried on the attachments without a declared size.
AttachmentShapes ==
  {a \in [mime_type : MimeTypes, name : Names, size : Sizes,
          download_status : DownloadStatuses, content_empty : BOOLEAN,
          store_ok : BOOLEAN, extract : Extracts] :
     LET valid == validate_attachment_filetype(a)
         image == startswith(media_type_of(a), "image/")
         oversized == ~image /\ a.size # None
                      /\ a.size > XWIKI_ATTACHMENT_SIZE_THRESHOLD
         downloaded == valid /\ ~oversized /\ a.download_status = 200
                       /\ ~a.content_empty
     IN /\ startswith(lower(media_type_of(a)), "image/") => a.name = "p.png"
        /\ (~valid \/ image) => a.size = None
        /\ (~valid \/ oversized \/ a.size # None) => a.download_status = 200
        /\ a.download_status # 200 => ~a.content_empty
        /\ (~valid \/ oversized \/ a.size # None) => ~a.content_empty
        /\ ~(downloaded /\ image) => a.store_ok
        /\ (~(downloaded /\ ~image) \/ a.size # None) => a.extract = "ab"}

InitAttachments ==
  /\ dataset = <<>>
  /\ batch_size = 1
  /\ client_loaded = FALSE
  /\ checkpoint = build_dummy_checkpoint
  /\ offset_since = None
  /\ run = NoRun
  /\ last = NoCall
  /\ allow_images = FALSE
  /\ \E n \in 0..MaxAttachments :
       \E attachments \in [1..n -> AttachmentShapes] :
         page = [attachments |-> attachments, assembles |-> TRUE]
  /\ processed = NoProcessed
  /\ scope = NoScope
  /\ built = NoBuilt

\* set_allow_images
SetAllowImages(allow) ==
  /\ allow_images # allow
  /\ allow_images' = allow
  /\ UNCHANGED <<connector_vars, page, processed, scope_vars>>

\* process_xwiki_page(client, page, allow_images): the attachment loop under
\* its try, then the Document
ProcessXWikiPage ==
  /\ \E loop \in {attachment_loop(page.attachments, 1, allow_images)} :
       processed' =
         [allow_images |-> allow_images,
          results |-> loop.results,
          sections |-> <<[kind |-> "text", attachment |-> 0, text |-> "content"]>>
                       \o loop.sections,
          document |-> process_xwiki_page(page)]
  /\ UNCHANGED <<connector_vars, allow_images, page, scope_vars>>

NextAttachments ==
  \/ \E allow \in BOOLEAN : SetAllowImages(allow)
  \/ ProcessXWikiPage

SpecAttachments == InitAttachments /\ [][NextAttachments]_vars

\* ------------------------------------------------------------------------
\* query_pages putting its search request together
\* ------------------------------------------------------------------------
\* wiki names, as the wiki argument of the connector and as the prefix of
\* root_page: absent, empty, named
WikiNames == {NoValue, "", "wikiA", "wikiB"}
\* the page path of root_page without a trailing .WebHome: a space, a nested
\* page reference, a space name of two words, a name with a quote
SpaceNames == {"Space", "Help.Macros", "My Space", "Q\"s"}
\* tags: absent, empty, plain, with a quote
Tags == {NoValue, "", "news", "a\"b"}

\* root_page written from its parts: "<wiki>:<space>.WebHome"
RootPage(wiki_prefix, space_name, web_home) ==
  (IF wiki_prefix = NoValue THEN "" ELSE wiki_prefix \o ":")
  \o space_name \o (IF web_home THEN ".WebHome" ELSE "")

\* the configurations of XWikiConnector.__init__: root_page absent, empty or
\* written from its parts
Scopes ==
  {[wiki |-> w, wiki_prefix |-> NoValue, space_name |-> NoValue, web_home |-> FALSE,
    root_page |-> r, tag |-> t, index_recursively |-> rec] :
     w \in WikiNames \ {"wikiA"}, r \in {NoValue, ""}, t \in Tags, rec \in BOOLEAN}
  \cup
  {[wiki |-> w, wiki_prefix |-> wp, space_name |-> sp, web_home |-> wh,
    root_page |-> RootPage(wp, sp, wh), tag |-> t, index_recursively |-> rec] :
     w \in WikiNames \ {"wikiA"}, wp \in WikiNames \ {"wikiB"}, sp \in SpaceNames,
     wh \in BOOLEAN, t \in Tags, rec \in BOOLEAN}

InitQuery ==
  /\ dataset = <<>>
  /\ batch_size = 1
  /\ client_loaded = FALSE
  /\ checkpoint = build_dummy_checkpoint
  /\ offset_since = None
  /\ run = NoRun
  /\ last = NoCall
  /\ allow_images = FALSE
  /\ page = NoPage
  /\ processed = NoProcessed
  /\ scope \in Scopes
  /\ built = NoBuilt

\* query_pages up to its search request: _build_solr_query, then the request
\* parameters with the wiki to use
BuildSearchRequest(since_ms) ==
  /\ \E b \in {build_solr_query(scope.root_page, scope.tag,
                                scope.index_recursively, since_ms)} :
       built' = [since_ms |-> since_ms,
                 parameters |-> query_parameters(scope.wiki, scope.root_page,
                                                 scope.tag, scope.index_recursively,
                                                 since_ms, checkpoint.offset, batch_size),
                 query |-> b.query, queryTerms |-> b.queryTerms,
                 extra_params |-> b.extra_params, space |-> b.space]
  /\ UNCHANGED <<connector_vars, page_vars, scope>>

NextQuery ==
  \E since_ms \in {None} \cup Dates : BuildSearchRequest(since_ms)

SpecQuery == InitQuery /\ [][NextQuery]_vars

\* ------------------------------------------------------------------------
\* Properties
\* ------------------------------------------------------------------------
\* the last call sent its search request
Issued == last.outcome \notin {"none", "missing_credentials"}
\* the last call returned a checkpoint
Returned == last.outcome = "ok"

SetMax(S) == CHOOSE m \in S : \A x \in S : x <= m

\* the largest of the queried since_ms and the modified_ms of the page records
\* of the last batch; None when there is neither
MaxSeen ==
  LET seen == (IF last.q_since = None THEN {} ELSE {last.q_since})
              \cup {last.refs[i].modified_ms : i \in DOMAIN last.refs}
  IN IF seen = {} THEN None ELSE SetMax(seen)

\* C1: batch-completion law. A batch whose raw hit count is below the batch
\* limit returns a cursor with has_more = false, offset = 0 and since_ms equal
\* to the largest of the queried since_ms and the modified_ms of the page
\* records of the batch (the queried since_ms when there is no record).
C1_BatchCompletion ==
  (Returned /\ last.raw_count < batch_size) =>
    /\ last.out_cursor.has_more = FALSE
    /\ last.out_cursor.offset = 0
    /\ last.out_cursor.since_ms = MaxSeen
    /\ (last.refs = <<>> => last.out_cursor.since_ms = last.q_since)

\* a short batch whose records moved a since_ms that was set forward
C1_Witness ==
  /\ Returned /\ last.raw_count < batch_size
  /\ last.q_since # None
  /\ last.refs # <<>>
  /\ last.out_cursor.since_ms > last.q_since

\* C2: full-batch law. A batch whose raw hit count reaches the batch limit
\* returns has_more = true, offset = input offset + raw hit count and the
\* since_ms it was queried with; since_ms differs from the queried one only
\* after a batch below the limit.
C2_FullBatch ==
  /\ (Returned /\ last.raw_count >= batch_size) =>
       /\ last.out_cursor.has_more = TRUE
       /\ last.out_cursor.offset = last.in_cursor.offset + last.raw_count
       /\ last.out_cursor.since_ms = last.q_since
  /\ (Returned /\ last.out_cursor.since_ms # last.q_since) =>
       last.raw_count < batch_size

\* a full batch at a positive offset holding a record newer than since_ms
C2_Witness ==
  /\ Returned /\ last.raw_count >= batch_size
  /\ last.in_cursor.offset > 0 /\ last.q_since # None
  /\ \E i \in DOMAIN last.refs : last.refs[i].modified_ms > last.q_since

\* C3: offset is relative to the current since_ms. Every search request with a
\* positive offset is issued under the since_ms under which that offset was
\* accumulated; a request under a different since_ms uses offset 0.
C3_OffsetRelative ==
  (Issued /\ last.q_offset > 0) => last.q_since = last.in_offset_since

\* C4: no page is skipped under concurrent modification. When the batches of
\* one run (all queried with the same since_ms) end with has_more = false, every
\* page that matched the filter in every batch of the run has been yielded.
C4_NoPageSkipped ==
  (Returned /\ ~last.out_cursor.has_more /\ last.same_start) => last.missed = {}

\* C5 as stated: in every batch the offset advances by the number of raw hits
\* of the search, and has_more is computed from that count.
C5_AdvancesEveryBatch ==
  Returned =>
    /\ last.out_cursor.offset = last.in_cursor.offset + Len(last.data_list)
    /\ last.out_cursor.has_more = (Len(last.data_list) >= batch_size)

\* C5: fullness and advancement are judged on raw hits. has_more is
\* (raw hits >= batch limit) with the raw hits counting translations and
\* dropped hits; when has_more is true the offset advances by the raw hits,
\* and when it is false the offset is reset to 0.
C5_RawHits ==
  Returned =>
    /\ last.raw_count = Len(last.data_list)
    /\ last.out_cursor.has_more = (Len(last.data_list) >= batch_size)
    /\ last.out_cursor.has_more =>
         last.out_cursor.offset = last.in_cursor.offset + Len(last.data_list)
    /\ ~last.out_cursor.has_more => last.out_cursor.offset = 0

\* a full batch in which a hit was dropped
C5_Witness ==
  /\ Returned /\ last.out_cursor.has_more
  /\ Len(last.refs) < Len(last.data_list)
  /\ last.out_cursor.offset = last.in_cursor.offset + Len(last.data_list)

\* the hits of the last batch, by position, and their ids in order
Hits == last.data_list
IdsOf(seq) == [i \in DOMAIN seq |-> seq[i].id]
RefIds == {last.refs[i].id : i \in DOMAIN last.refs}
FetchedIds == {last.fetched[i].id : i \in DOMAIN last.fetched}

GoodHit(h) ==
  /\ h.language \in {NoLanguage, ""}
  /\ h.has_page_link /\ h.detail_status = 200 /\ ~h.detail_empty
  /\ h.assembles

\* C7: a batch yields exactly one document per good hit, in hit order, and
\* none for any other hit; a batch of two raw hits, one good and one a
\* translation, under a larger limit yields one document and returns
\* has_more = false, offset = 0. (Batches with a hit marked "null", the case of
\* C6, or answered 401, the case of C10, are left out.)
C7_OneDocumentPerGoodHit ==
  (\A i \in DOMAIN Hits : Hits[i].language # "null" /\ Hits[i].detail_status # 401) =>
    /\ last.docs = IdsOf(SelectSeq(Hits, GoodHit))
    /\ (/\ Len(Hits) = 2 /\ batch_size > 2
        /\ GoodHit(Hits[1]) /\ Hits[2].language = "fr") =>
         /\ Returned /\ Len(last.docs) = 1
         /\ ~last.out_cursor.has_more /\ last.out_cursor.offset = 0

\* the cursor the bookkeeping gives from the raw hit count and all page records
ExpectedCursor ==
  IF last.raw_count >= batch_size
  THEN [since_ms |-> last.q_since, offset |-> last.in_cursor.offset + last.raw_count,
        has_more |-> TRUE]
  ELSE [since_ms |-> MaxSeen, offset |-> 0, has_more |-> FALSE]

\* C8: document construction failures are isolated. The pages whose document
\* fails to build are skipped, every other page record of the batch is yielded
\* in order, and the returned cursor is the one the batch returns when no page
\* fails: it depends on the raw hit count and on all page records only.
C8_FailuresIsolated ==
  Returned =>
    /\ last.docs = IdsOf(SelectSeq(last.refs, LAMBDA p : p.assembles))
    /\ last.out_cursor = ExpectedCursor

\* a short batch in which the newest page fails to build, another page is
\* yielded, and since_ms still moves to the date of the failed page
C8_Witness ==
  /\ Returned /\ last.raw_count < batch_size /\ last.docs # <<>>
  /\ \E i \in DOMAIN last.refs :
       /\ ~last.refs[i].assembles
       /\ \A j \in DOMAIN last.refs : last.refs[j].modified_ms <= last.refs[i].modified_ms
       /\ last.out_cursor.since_ms = last.refs[i].modified_ms
       /\ last.q_since # last.refs[i].modified_ms

\* the search request of the last call was answered with 200
SearchAnswered == Issued /\ last.statuses[last.attempts] = 200

\* a hit that resolves to a page record
Resolvable(h) ==
  /\ h.language \in {NoLanguage, "", "null"}
  /\ h.has_page_link /\ h.detail_status = 200 /\ ~h.detail_empty

\* C9: an unresolvable kept hit (no page link, or a failed detail fetch) is
\* dropped without failing the batch: query_pages returns the records of the
\* other hits and the full raw hit count. (Detail fetches answered 401, the
\* case of C10, are left out.)
C9_UnresolvedDropped ==
  (SearchAnswered /\ \A i \in DOMAIN Hits : Hits[i].detail_status # 401) =>
    /\ Returned
    /\ last.raw_count = Len(Hits)
    /\ IdsOf(last.refs) = IdsOf(SelectSeq(Hits, Resolvable))

\* the hit of the last batch with this id
HitOf(id) == CHOOSE h \in SeqRange(Hits) : h.id = id

C15_AbortsOnlyOnRequiredCalls ==
  last.outcome \notin {"none", "ok"} =>
    \/ last.outcome = "missing_credentials"
    \/ last.outcome = "auth_error"
    \/ /\ last.outcome = "unexpected_response"
       /\ last.attempts = TRIES
       /\ \A k \in DOMAIN last.statuses : last.statuses[k] = 500

\* C16: bounded retry per call. The search request and every detail fetch
\* make at most TRIES attempts, a request whose attempts all fail with a
\* non-2xx status other than 401 ends the call with the unexpected-response
\* error, and every call ends.
C16_AtMostTriesPerCall ==
  /\ last.attempts <= TRIES
  /\ \A i \in DOMAIN last.fetched : last.fetched[i].attempts <= TRIES
  /\ (Issued /\ \A k \in DOMAIN last.statuses : last.statuses[k] = 500) =>
       last.outcome = "unexpected_response"
  /\ \A i \in DOMAIN last.fetched :
       HitOf(last.fetched[i].id).detail_status = 500 =>
         last.outcome = "unexpected_response"

\* C20 as stated: a null since_ms with a start is queried as start in
\* milliseconds and the returned cursor carries that value; a since_ms that is
\* set is never changed by start.
C20_SeedCarried ==
  Issued =>
    /\ (last.in_cursor.since_ms = None /\ last.start # 0) =>
         /\ last.q_since = last.start * MS_PER_SECOND
         /\ Returned => last.out_cursor.since_ms = last.start * MS_PER_SECOND
    /\ last.in_cursor.since_ms # None => last.q_since = last.in_cursor.since_ms

\* C20: cursor seeding. A null since_ms with a start (other than 0) is queried
\* as start in milliseconds; the returned cursor carries that value after a
\* full batch, and after a batch below the limit the largest of that value and
\* the modified_ms of the page records of the batch. A since_ms that is set is
\* never changed by start, and neither is a null one by start = 0.
C20_SeededOnFirstUse ==
  Issued =>
    /\ (last.in_cursor.since_ms = None /\ last.start # 0) =>
         /\ last.q_since = last.start * MS_PER_SECOND
         /\ (Returned /\ last.raw_count >= batch_size) =>
              last.out_cursor.since_ms = last.start * MS_PER_SECOND
         /\ (Returned /\ last.raw_count < batch_size) =>
              /\ last.out_cursor.since_ms = MaxSeen
              /\ last.out_cursor.since_ms >= last.start * MS_PER_SECOND
    /\ last.in_cursor.since_ms # None => last.q_since = last.in_cursor.since_ms
    /\ (last.in_cursor.since_ms = None /\ last.start = 0) => last.q_since = None

\* a first batch seeded from start that is full and returns the seeded value,
\* though it holds a record modified later
C20_Witness ==
  /\ Returned /\ last.in_cursor.since_ms = None /\ last.start # 0
  /\ last.raw_count >= batch_size
  /\ last.out_cursor.since_ms = last.start * MS_PER_SECOND
  /\ \E i \in DOMAIN last.refs : last.refs[i].modified_ms > last.out_cursor.since_ms

RunEnded == Returned /\ ~last.out_cursor.has_more /\ last.same_start

\* the raw hits of the query of the last batch, from offset 0 on
AllHits == SolrSearch(dataset, build_modified_filter(last.q_since), 0, Len(dataset))

\* every detail fetch of the index is answered otherwise than by 401
NoDetailRefused == \A h \in DOMAIN dataset : dataset[h].shape.detail_status # 401

\* a call that returns has_more = true moves the offset forward, within the
\* raw hits of its query
OffsetAdvances ==
  (Returned /\ last.out_cursor.has_more) =>
    /\ last.out_cursor.offset > last.in_cursor.offset
    /\ last.out_cursor.offset <= Len(AllHits)

\* an ended run has made floor(N / L) + 1 search requests, the last of which
\* returned no hit when N is a positive multiple of L
RequestCount ==
  RunEnded =>
    /\ run.batches = (Len(AllHits) \div batch_size) + 1
    /\ (Len(AllHits) > 0 /\ Len(AllHits) % batch_size = 0) => last.raw_count = 0

\* C22: run termination on a finite dataset. Against an unchanged index on
\* which no detail fetch is answered 401, every call of a run returns a cursor,
\* and a cursor with has_more = true has a larger offset that stays within the
\* N raw hits of the query, so that the caller who keeps calling (SpecRun)
\* reaches has_more = false; the run has then made floor(N / L) + 1 search
\* requests for the batch limit L, and when N is a positive multiple of L its
\* last request returned no hit.
C22_RunTerminates ==
  NoDetailRefused =>
    /\ last.outcome # "none" => Returned
    /\ OffsetAdvances
    /\ RequestCount

\* C23: after a run that fetched batches until has_more = false, the since_ms
\* of the cursor is at least the modified_ms of every page record seen in any
\* batch of the run.
C23_SinceCoversRun ==
  RunEnded =>
    \A m \in run.seen : /\ last.out_cursor.since_ms # None
                        /\ last.out_cursor.since_ms >= m

\* C24: on an unchanged index, the batches of one run, from offset 0 until
\* has_more = false, fetch the raw hits of the query one after the other: every
\* hit index once, none twice and none left out, whatever becomes of the hits.
C24_RunCoversHits == RunEnded => run.hits = IdsOf(AllHits)

\* the hit is dropped by query_pages: a translation or an unresolvable hit
Dropped(hit) == load_page_data(hit).kind = "none"

\* an ended run of several batches, one of whose hits was dropped
C24_Witness ==
  /\ RunEnded
  /\ run.batches > 1
  /\ Len(run.hits) > 1
  /\ \E i \in DOMAIN AllHits : Dropped(AllHits[i])

\* the call raised or the caller abandoned it: no cursor was returned
NoCursorReturned == last.outcome \notin {"none", "ok"}

\* the batch the caller gets when it calls again with the checkpoint it holds
\* and the start of the last call
Replayed ==
  load_from_checkpoint(dataset, batch_size, client_loaded, last.start, checkpoint,
                       AllOk)

\* C25: load_from_checkpoint never changes the checkpoint object it is given.
\* When the call raises, or the caller stops iterating before the batch is
\* exhausted, the checkpoint the caller holds is the one it passed in, and a
\* call with it repeats the search request of the call, if it sent one, with
\* the same since_ms and offset; after a stop the replayed batch starts with the
\* documents already received.
C25_GivenCursorUntouched ==
  /\ last.given = last.in_cursor
  /\ NoCursorReturned =>
       /\ last.out_cursor = last.in_cursor
       /\ checkpoint = last.in_cursor
  /\ (NoCursorReturned /\ last.outcome # "missing_credentials") =>
       /\ Replayed.q_since = last.q_since
       /\ Replayed.q_offset = last.q_offset
  /\ last.outcome = "stopped" =>
       /\ Replayed.outcome = "ok"
       /\ Len(Replayed.docs) >= Len(last.docs)
       /\ SubSeq(Replayed.docs, 1, Len(last.docs)) = last.docs

\* the caller stopped a batch that was queried under a since_ms seeded from
\* start, before its last document
C25_Witness ==
  /\ last.outcome = "stopped"
  /\ last.in_cursor.since_ms = None
  /\ last.q_since # None
  /\ Len(last.docs) < Len(Replayed.docs)

\* C26: since_ms never decreases. The since_ms of a returned cursor is not
\* null and not smaller than the since_ms the batch was queried with, when
\* that is not null; a cursor given with a since_ms is queried with it, and
\* the cursor returned for it has a since_ms that is not null and not smaller.
C26_SinceMonotone ==
  Returned =>
    /\ last.q_since # None =>
         /\ last.out_cursor.since_ms # None
         /\ last.out_cursor.since_ms >= last.q_since
    /\ last.in_cursor.since_ms # None =>
         /\ last.q_since = last.in_cursor.since_ms
         /\ last.out_cursor.since_ms # None
         /\ last.out_cursor.since_ms >= last.in_cursor.since_ms

\* a batch queried with a since_ms that a run before it set, which returned a
\* page record modified before that since_ms and ended the run
C26_Witness ==
  /\ Returned
  /\ last.in_cursor.since_ms # None
  /\ ~last.out_cursor.has_more
  /\ \E i \in DOMAIN last.refs : last.refs[i].modified_ms < last.q_since
  /\ last.out_cursor.since_ms = last.q_since

\* ------------------------------------------------------------------------
\* Properties of the attachment pipeline
\* ------------------------------------------------------------------------
\* process_xwiki_page has been called on the page
Processed == processed.document # "none"
Attachments == page.attachments
Results == processed.results

\* the media type of the attachment is an image type (media types compare
\* without regard to case)
IsImageType(attachment) == startswith(lower(media_type_of(attachment)), "image/")

\* the number of populated fields of an AttachmentProcessingResult
Populated(result) ==
  (IF result.text # NoValue THEN 1 ELSE 0)
  + (IF result.image_section # NoValue THEN 1 ELSE 0)
  + (IF result.error # NoValue THEN 1 ELSE 0)

\* C11: with allow_images = false, every attachment whose media type is an
\* image type gets an error outcome, no image payload, and no download call.
C11_ImageRejectedWithoutDownload ==
  (Processed /\ ~processed.allow_images) =>
    \A i \in DOMAIN Results :
      IsImageType(Attachments[i]) =>
        /\ Results[i].error # NoValue
        /\ Results[i].image_section = NoValue
        /\ Results[i].downloads = 0

\* C12: the size ceiling is enforced before download. Every attachment whose
\* media type is not an image type and whose declared size exceeds the
\* threshold gets an error outcome and no download call.
C12_OversizedNeverDownloaded ==
  Processed =>
    \A i \in DOMAIN Results :
      (/\ ~IsImageType(Attachments[i])
       /\ Attachments[i].size # None
       /\ Attachments[i].size > XWIKI_ATTACHMENT_SIZE_THRESHOLD) =>
        /\ Results[i].error # NoValue
        /\ Results[i].downloads = 0

\* a supported document above the size ceiling, rejected for its size
C12_Witness ==
  /\ Processed
  /\ \E i \in DOMAIN Results :
       /\ Attachments[i].mime_type = "application/pdf"
       /\ Attachments[i].name = "a.pdf"
       /\ Attachments[i].size # None
       /\ Attachments[i].size > XWIKI_ATTACHMENT_SIZE_THRESHOLD
       /\ Results[i].error = "Attachment exceeds size limit"

RECURSIVE Contributing(_, _)
Contributing(i, allow) ==
  IF i > Len(Attachments) THEN <<>>
  ELSE LET own == process_attachment(Attachments[i], allow)
       IN (IF own.text # NoValue \/ own.image_section # NoValue
           THEN <<i>> ELSE <<>>) \o Contributing(i + 1, allow)

\* C14: attachment failures are isolated. Every attachment of the page gets
\* its own outcome, a failing one an error outcome; the sections of the
\* document are the page content followed by one section per attachment whose
\* own outcome carries text or an image, in order; and the document of the
\* page is produced.
C14_AttachmentFailuresIsolated ==
  (Processed /\ page.assembles) =>
    /\ Len(Results) = Len(Attachments)
    /\ \A i \in DOMAIN Results :
         Results[i] = process_attachment(Attachments[i], processed.allow_images)
    /\ processed.sections[1].attachment = 0
    /\ [k \in 1..(Len(processed.sections) - 1) |-> processed.sections[k + 1].attachment]
         = Contributing(1, processed.allow_images)
    /\ processed.document = "document"

\* a page whose first attachment fails to download and whose second
\* attachment still contributes its text section
C14_Witness ==
  /\ Processed /\ Len(Results) = 2
  /\ Attachments[1].download_status = 500
  /\ Results[1].error = "unexpected_response" /\ Results[1].downloads = 1
  /\ Results[2].text = "ab"
  /\ Len(processed.sections) = 2 /\ processed.sections[2].attachment = 2
  /\ processed.document = "document"

\* ------------------------------------------------------------------------
\* Properties of the query builder
\* ------------------------------------------------------------------------
\* query_pages has put a search request together
Built == built.parameters # <<>>

IsSpaceTerm(t) == startswith(t, "space:")
IsTagTerm(t) == startswith(t, "(property.XWiki.TagClass.tags:")
IsScopeTerm(t) == IsSpaceTerm(t) \/ IsTagTerm(t)

Supplied(v) == v \notin {NoValue, ""}

\* C17: space and tag filters are mutually exclusive. The terms of the query
\* never hold both a space filter and a tag filter, also when root_page and
\* tag are both supplied; when neither is supplied no term is a scope term.
C17_ScopeFiltersExclusive ==
  Built =>
    /\ ~(/\ \E i \in DOMAIN built.queryTerms : IsSpaceTerm(built.queryTerms[i])
         /\ \E j \in DOMAIN built.queryTerms : IsTagTerm(built.queryTerms[j]))
    /\ Cardinality({i \in DOMAIN built.queryTerms : IsScopeTerm(built.queryTerms[i])}) <= 1
    /\ (~Supplied(scope.root_page) /\ ~Supplied(scope.tag)) =>
         \A i \in DOMAIN built.queryTerms : ~IsScopeTerm(built.queryTerms[i])

\* a query built with root_page and tag both supplied, holding the space
\* filter only
C17_Witness ==
  /\ Built /\ Supplied(scope.root_page) /\ Supplied(scope.tag)
  /\ \E i \in DOMAIN built.queryTerms : IsSpaceTerm(built.queryTerms[i])
  /\ built.since_ms # None

\* C18: root-scope parsing. A root_page written "<wiki>:<path>" yields
\* extra_params.wiki = <wiki>, a root_page without a colon yields no wiki; in
\* both cases the space is the path without a trailing .WebHome, and the path
\* itself when it does not end in .WebHome.
C18_RootScopeParsed ==
  (Built /\ Supplied(scope.root_page)) =>
    /\ scope.wiki_prefix # NoValue => built.extra_params.wiki = scope.wiki_prefix
    /\ scope.wiki_prefix = NoValue => built.extra_params.wiki = NoValue
    /\ built.space = scope.space_name
    /\ (~scope.index_recursively) =>
         \E i \in DOMAIN built.queryTerms :
           built.queryTerms[i] = "space:\"" \o esc(scope.space_name) \o "\""

\* wikiA:Space.WebHome gives wiki wikiA and space Space
C18_Witness ==
  /\ Built /\ scope.root_page = "wikiA:Space.WebHome"
  /\ built.extra_params.wiki = "wikiA" /\ built.space = "Space"

\* C19: wiki precedence. When a wiki is supplied explicitly the wikis
\* parameter of the search request is that wiki, whatever root_page carries;
\* the wiki extracted from root_page is used only when no wiki is supplied
\* explicitly, and without either no wikis parameter is sent.
C19_ExplicitWikiWins ==
  Built =>
    /\ Supplied(scope.wiki) => built.parameters.wikis = scope.wiki
    /\ (~Supplied(scope.wiki) /\ Supplied(built.extra_params.wiki)) =>
         built.parameters.wikis = built.extra_params.wiki
    /\ (~Supplied(scope.wiki) /\ ~Supplied(built.extra_params.wiki)) =>
         built.parameters.wikis = NoValue

\* an explicit wiki next to a root_page with another wiki prefix
C19_Witness ==
  /\ Built /\ scope.wiki = "wikiB" /\ built.extra_params.wiki = "wikiA"
  /\ built.parameters.wikis = "wikiB"

====
